---- MODULE Spec2Model ----
(***************************************************************************)
(* Model of the freq-detector core: the two frequency detectors            *)
(* (AutocorrelationDetector, PowerCepstrum) driving a reusable FftSpace    *)
(* through init / forward FFT / elementwise map / inverse FFT / peak       *)
(* search, and PitchDetector::detect_pitch.                                *)
(*                                                                         *)
(* Numbers.  An f64 is modelled as a pair <<n, d>>: d > 0 is the exact     *)
(* rational n/d in lowest terms, d = 0 is one of the IEEE specials         *)
(* (<<1,0>> = +inf, <<-1,0>> = -inf, <<0,0>> = NaN).  Rounding error and   *)
(* the sign of zero are not modelled.  A Complex<f64> is <<re, im>>.       *)
(* The transforms are exact for buffer lengths dividing 4, where every     *)
(* twiddle factor is a power of i.                                         *)
(***************************************************************************)
EXTENDS Integers, Sequences, FiniteSets, TLC

VARIABLES
    len,          \* length the FftSpace was constructed with
    space,        \* FftSpace buffer: len complex entries, bin k at space[k + 1]
    detector,     \* algorithm of the call in progress
    signal,       \* the signal window of the call
    sample_rate,  \* the sample rate of the call, in Hz
    fft_range,    \* (lower_limit, upper_limit) of the call
    pc,           \* position of the call inside the detector
    trace,        \* the workspace operations of the call, in order
    spectrum,     \* the windowed pairs <<index, amplitude>> the search reads
    peaks,        \* the candidates the Peak Finder yielded (PowerCepstrum)
    fft_point,    \* the item the reduce selected, or None
    point,        \* the FftPoint <<x, y>> of detect_unscaled_freq, or None
    result,       \* the Option<f64> the call returned
    reused        \* the workspace held an earlier detection's data at the call

vars == <<len, space, detector, signal, sample_rate, fft_range, pc, trace,
          spectrum, peaks, fft_point, point, result, reused>>

(* ------------------------------ f64 ---------------------------------- *)

NaN == <<0, 0>>
PInf == <<1, 0>>
NInf == <<-1, 0>>
None == <<>>
Some(v) == <<v>>

Abs(i) == IF i < 0 THEN -i ELSE i
Sgn(i) == IF i < 0 THEN -1 ELSE IF i > 0 THEN 1 ELSE 0
Min(a, b) == IF a < b THEN a ELSE b

RECURSIVE Gcd(_, _)
Gcd(a, b) == IF b = 0 THEN a ELSE Gcd(b, a % b)

\* n/d with d # 0, in lowest terms with a positive denominator.
Ratio(n, d) ==
    LET g == Gcd(Abs(n), Abs(d))
    IN  <<Sgn(d) * Sgn(n) * (Abs(n) \div g), Abs(d) \div g>>

F(i) == <<i, 1>>
IsNaN(x) == x = NaN
IsFinite(x) == x[2] # 0
FSgn(x) == Sgn(x[1])
FNeg(x) == <<-x[1], x[2]>>

FAdd(x, y) ==
    IF IsNaN(x) \/ IsNaN(y) THEN NaN
    ELSE IF ~IsFinite(x) /\ ~IsFinite(y) THEN (IF x = y THEN x ELSE NaN)
    ELSE IF ~IsFinite(x) THEN x
    ELSE IF ~IsFinite(y) THEN y
    ELSE Ratio(x[1] * y[2] + y[1] * x[2], x[2] * y[2])

FSub(x, y) == FAdd(x, FNeg(y))

FMul(x, y) ==
    IF IsNaN(x) \/ IsNaN(y) THEN NaN
    ELSE IF ~IsFinite(x) \/ ~IsFinite(y)
         THEN <<FSgn(x) * FSgn(y), 0>>
         ELSE Ratio(x[1] * y[1], x[2] * y[2])

FDiv(x, y) ==
    IF IsNaN(x) \/ IsNaN(y) THEN NaN
    ELSE IF ~IsFinite(x) /\ ~IsFinite(y) THEN NaN
    ELSE IF ~IsFinite(y) THEN F(0)
    ELSE IF ~IsFinite(x) THEN <<FSgn(x) * (IF y[1] < 0 THEN -1 ELSE 1), 0>>
    ELSE IF y[1] = 0 THEN <<FSgn(x), 0>>
    ELSE Ratio(x[1] * y[2], x[2] * y[1])

\* The f64 comparison x > y: false as soon as one side is NaN.
FGt(x, y) ==
    /\ ~IsNaN(x)
    /\ ~IsNaN(y)
    /\ LET diff == FSub(x, y) IN ~IsNaN(diff) /\ diff[1] > 0

FGe(x, y) == FGt(x, y) \/ (~IsNaN(x) /\ x = y)

(* ---------------------------- Complex -------------------------------- *)

Re(z) == z[1]
Im(z) == z[2]
CAdd(z, w) == <<FAdd(Re(z), Re(w)), FAdd(Im(z), Im(w))>>
CMul(z, w) == <<FSub(FMul(Re(z), Re(w)), FMul(Im(z), Im(w))),
                FAdd(FMul(Re(z), Im(w)), FMul(Im(z), Re(w)))>>
Conj(z) == <<Re(z), FNeg(Im(z))>>
NormSqr(z) == FAdd(FMul(Re(z), Re(z)), FMul(Im(z), Im(z)))

\* z * (-i)^q: the twiddle factors of a transform whose length divides 4.
Rot(z, q) ==
    CASE q % 4 = 0 -> z
      [] q % 4 = 1 -> <<Im(z), FNeg(Re(z))>>
      [] q % 4 = 2 -> <<FNeg(Re(z)), FNeg(Im(z))>>
      [] q % 4 = 3 -> <<FNeg(Im(z)), Re(z)>>

RECURSIVE CSum(_, _)
CSum(f, n) == IF n = 0 THEN <<F(0), F(0)>> ELSE CAdd(CSum(f, n - 1), f[n])

\* The unnormalized DFT  X[k] = sum_n x[n] * w^(k n),  w = (-i)^(dir * 4 / N).
Dft(buf, dir) ==
    LET N == Len(buf)
        q(k, n) == ((4 \div N) * dir * k * n) % 4
    IN  [k \in 1..N |->
            CSum([n \in 1..N |-> Rot(buf[n], q(k - 1, n - 1))], N)]

forward_fft(buf) == Dft(buf, 1)
inverse_fft(buf) == Dft(buf, 3)

\* ceil(e^k), k = 1..20: k is counted in FloorLn(v) iff e^k <= v.
ExpCeil == <<3, 8, 21, 55, 149, 404, 1097, 2981, 8104, 22027, 59875, 162755,
             442414, 1202605, 3269018, 8886111, 24154953, 65659970,
             178482301, 485165196>>

\* f64::log(e) of an integer-valued f64, rounded down to an integer:
\* ln(0) = -inf, ln of a negative number is NaN.
FloorLn(v) == Cardinality({k \in 1..Len(ExpCeil) : ExpCeil[k] <= v})

Ln(x) ==
    IF IsNaN(x) \/ x = NInf THEN NaN
    ELSE IF x = PInf THEN PInf
    ELSE IF x[1] < 0 THEN NaN
    ELSE IF x[1] = 0 THEN NInf
    ELSE IF x[1] >= x[2] THEN F(FloorLn(x[1] \div x[2]))
    ELSE F(-(FloorLn(x[2] \div x[1]) + 1))

(* ---------------------------- FftSpace ------------------------------- *)

\* FftSpace::new(len): a zeroed buffer of len complex entries.
FftSpaceNew(n) == [k \in 1..n |-> <<F(0), F(0)>>]

\* FftSpace::init_fft_space: every entry is overwritten by one sample of the
\* signal with a zero imaginary part (the signal has exactly len samples).
init_fft_space(sig, buf) == [k \in 1..Len(buf) |-> <<F(sig[k]), F(0)>>]

\* FftSpace::freq_domain(false): one (amplitude, phase) pair per bin; the
\* amplitude of a bin is its real part, unscaled.
freq_domain(buf) == [k \in 1..Len(buf) |-> <<Re(buf[k]), Im(buf[k])>>]

(* ---------------------------- constants ------------------------------ *)

\* The detectable frequency band, scaled down so that the search window
\* falls inside the short buffers the transforms are exact for.
MAX_FREQ == 4
MIN_FREQ == 1

\* f64::round of a / b for a >= 0, b > 0 (halves round away from zero).
RoundDiv(a, b) == (2 * a + b) \div (2 * b)

(* ------------------------- Peak Interpolator ------------------------- *)

\* core::utils::interpolated_peak_at(spectrum, idx), idx counted from 0:
\* the vertex of the parabola through the candidate and its two neighbours.
\* None at either end of the array and when the fit is degenerate.
interpolated_peak_at(ys, idx) ==
    IF idx = 0 \/ idx >= Len(ys) - 1 THEN None
    ELSE LET y0 == ys[idx]
             y1 == ys[idx + 1]
             y2 == ys[idx + 2]
             den == FAdd(FSub(y0, FMul(F(2), y1)), y2)
             p == FDiv(FSub(y0, y2), FMul(F(2), den))
         IN  IF ~IsFinite(den) \/ den = F(0) \/ ~IsFinite(p) THEN None
             ELSE Some(<<FAdd(F(idx), p),
                         FSub(y1, FDiv(FMul(FSub(y0, y2), p), F(4)))>>)

\* The fit of interpolated_peak_at is degenerate at an interior index.
DegenerateAt(ys, idx) ==
    /\ idx > 0
    /\ idx < Len(ys) - 1
    /\ interpolated_peak_at(ys, idx) = None

(* ----------------------------- iterators ----------------------------- *)

\* slice.iter().enumerate(): pairs <<index from 0, value>>.
enumerate(ys) == [i \in 1..Len(ys) |-> <<i - 1, ys[i]>>]
values(items) == [i \in 1..Len(items) |-> items[i][2]]

\* iter.skip(lo).take(hi - lo) over a sequence.
skip_take(s, lo, hi) == SubSeq(s, lo + 1, Min(lo + (hi - lo), Len(s)))

(* ---------------------------- Peak Finder ---------------------------- *)

\* items[j] is a local maximum: strictly above both of its neighbours.
LocalMax(items, j) ==
    /\ j > 1
    /\ j < Len(items)
    /\ FGt(items[j][2], items[j - 1][2])
    /\ FGt(items[j][2], items[j + 1][2])

\* The value of the valley next to j on its left / right: the walk goes
\* downhill from j and stops where the sequence rises again.
RECURSIVE ValleyLeft(_, _)
ValleyLeft(items, j) ==
    IF j > 1 /\ FGe(items[j][2], items[j - 1][2])
    THEN ValleyLeft(items, j - 1) ELSE items[j][2]

RECURSIVE ValleyRight(_, _)
ValleyRight(items, j) ==
    IF j < Len(items) /\ FGe(items[j][2], items[j + 1][2])
    THEN ValleyRight(items, j + 1) ELSE items[j][2]

\* Height of the local maximum j above the higher of its two valleys.
Prominence(items, j) ==
    LET l == ValleyLeft(items, j - 1)
        r == ValleyRight(items, j + 1)
    IN  FSub(items[j][2], IF FGt(l, r) THEN l ELSE r)

Prominent(items, j, min_prom) ==
    LocalMax(items, j) /\ FGe(Prominence(items, j), F(min_prom))

\* core::peak_iter::FftPeaks::fft_peaks(min_sep, min_prom) over the pairs
\* <<bin, amplitude>>: the local maxima that pass both filters, in bin
\* order, each as <<interpolated bin, interpolated amplitude>>.
fft_peaks(items, min_sep, min_prom) ==
    LET ys == values(items)
        prominent == {j \in 1..Len(items) : Prominent(items, j, min_prom)}
        Loses(j) == \E k \in prominent :
                        /\ k # j
                        /\ Abs(items[k][1] - items[j][1]) <= min_sep
                        /\ \/ FGt(items[k][2], items[j][2])
                           \/ items[k][2] = items[j][2] /\ k < j
        kept == {j \in prominent :
                    ~Loses(j) /\ interpolated_peak_at(ys, j - 1) # None}
        Nth(i) == CHOOSE j \in kept : Cardinality({k \in kept : k < j}) = i - 1
        PeakAt(j) == LET fit == interpolated_peak_at(ys, j - 1)[1]
                     IN  <<FAdd(F(items[1][1]), fit[1]), fit[2]>>
    IN  [i \in 1..Cardinality(kept) |-> PeakAt(Nth(i))]

(* ------------------------------ bounds ------------------------------- *)

MaxSample == 2
MaxSpectrum == 4
MaxAmplitude == 2

FftLens == {2, 4}
Samples == (-MaxSample)..MaxSample
Signals(n) == [1..n -> Samples]
Rates == {1, 3, 4, 8, 16}

(* ------------------------ AutocorrelationDetector -------------------- *)

autocorrelation_relevant_fft_range(sr) ==
    <<RoundDiv(sr, MAX_FREQ), RoundDiv(sr, MIN_FREQ)>>

\* Mutant: the window takes one bin more, the bin upper_limit itself.
autocorrelation_unscaled_spectrum_inclusive(buf, range) ==
    LET w == skip_take(buf, range[1], range[2] + 1)
    IN  [i \in 1..Len(w) |-> FDiv(Re(w[i]), Re(buf[1]))]

autocorrelation_unscaled_spectrum(buf, range) ==
    LET w == skip_take(buf, range[1], range[2])
    IN  [i \in 1..Len(w) |-> FDiv(Re(w[i]), Re(buf[1]))]

\* Mutant: the conjugate is forgotten, f * f.
power_no_conj(f) == CMul(f, f)

\* |f| f * f.conj()
power(f) == CMul(f, Conj(f))

\* fft_space.map(|f| f * f.conj()): the closure on every entry, in place.
autocorrelation_map(buf) == [k \in 1..Len(buf) |-> power(buf[k])]

autocorrelation_process_fft(sig, buf) ==
    inverse_fft(autocorrelation_map(forward_fft(init_fft_space(sig, buf))))

\* Mutant: the comparison is >=, so the last of equal maxima wins.
autocorrelation_pick_ge(accum, quefrency) ==
    IF FGe(quefrency[2], accum[2]) THEN quefrency ELSE accum

\* Mutant: the comparison is !(<=), which a NaN passes.
autocorrelation_pick_not_le(accum, quefrency) ==
    IF ~FGe(accum[2], quefrency[2]) THEN quefrency ELSE accum

\* |accum, quefrency| if quefrency.1 > accum.1 { quefrency } else { accum }
autocorrelation_pick(accum, quefrency) ==
    IF FGt(quefrency[2], accum[2]) THEN quefrency ELSE accum

\* .iter().enumerate().reduce(..): a fold from the first item; None for no item.
autocorrelation_max(items) ==
    LET accum[i \in 1..Len(items)] ==
            IF i = 1 THEN items[1] ELSE autocorrelation_pick(accum[i - 1], items[i])
    IN  IF Len(items) = 0 THEN None ELSE Some(accum[Len(items)])

\* Mutant: the index is moved into the interior before the interpolation.
autocorrelation_peak_clamped(unscaled, max) ==
    IF max = None THEN None
    ELSE LET i == max[1][1]
             c == IF i = 0 THEN 1
                  ELSE IF i >= Len(unscaled) - 1 THEN Len(unscaled) - 2 ELSE i
         IN  interpolated_peak_at(unscaled, c)

\* The `?` on the reduce and the call of the Peak Interpolator at the index
\* of the selected item.
autocorrelation_peak(unscaled, max) ==
    IF max = None THEN None ELSE interpolated_peak_at(unscaled, max[1][1])

\* Mutant: the window's first bin is not added back.
autocorrelation_to_freq_no_offset(sr, lower_limit, pt) ==
    IF pt = None THEN None ELSE Some(FDiv(F(sr), pt[1][1]))

\* .map(|point| sample_rate / (lower_limit as f64 + point.x))
autocorrelation_to_freq(sr, lower_limit, pt) ==
    IF pt = None THEN None
    ELSE Some(FDiv(F(sr), FAdd(F(lower_limit), pt[1][1])))

autocorrelation_detect_unscaled_freq(sig, range, buf) ==
    LET unscaled == autocorrelation_unscaled_spectrum(
                        autocorrelation_process_fft(sig, buf), range)
    IN  autocorrelation_peak(unscaled, autocorrelation_max(enumerate(unscaled)))

autocorrelation_detect_frequency_with_fft_space(sig, sr, buf) ==
    LET range == autocorrelation_relevant_fft_range(sr)
    IN  autocorrelation_to_freq(sr, range[1],
            autocorrelation_detect_unscaled_freq(sig, range, buf))

(* ----------------------------- PowerCepstrum ------------------------- *)

cepstrum_relevant_fft_range(sr) ==
    <<RoundDiv(sr, MAX_FREQ), RoundDiv(sr, MIN_FREQ)>>

\* Mutant: the bins are numbered after the skip, from 0 inside the window.
cepstrum_spectrum_relative(buf, range) ==
    LET fd == freq_domain(buf)
        amplitude == [k \in 1..Len(fd) |-> fd[k][1]]
    IN  enumerate(skip_take(amplitude, range[1], range[2]))

cepstrum_spectrum(buf, range) ==
    LET fd == freq_domain(buf)
        amplitude == [k \in 1..Len(fd) |-> fd[k][1]]
    IN  skip_take(enumerate(amplitude), range[1], range[2])

\* |f| Complex::new(f.norm_sqr().log(E), 0.0)
log_power(f) == <<Ln(NormSqr(f)), F(0)>>

cepstrum_map(buf) == [k \in 1..Len(buf) |-> log_power(buf[k])]

cepstrum_process_fft(sig, buf) ==
    inverse_fft(cepstrum_map(forward_fft(init_fft_space(sig, buf))))

\* Mutant: the comparison is >=, so the last of equal candidates wins.
cepstrum_pick_ge(accum, quefrency) ==
    IF FGe(quefrency[2], accum[2]) THEN quefrency ELSE accum

cepstrum_pick(accum, quefrency) ==
    IF FGt(quefrency[2], accum[2]) THEN quefrency ELSE accum

\* .fft_peaks(60, 10.).reduce(..) over the pairs <<mu, amplitude>>.
cepstrum_max(items) ==
    LET accum[i \in 1..Len(items)] ==
            IF i = 1 THEN items[1] ELSE cepstrum_pick(accum[i - 1], items[i])
    IN  IF Len(items) = 0 THEN None ELSE Some(accum[Len(items)])

\* Mutant: the window's first bin is added as in the autocorrelation.
cepstrum_to_freq_with_offset(sr, pt) ==
    IF pt = None THEN None
    ELSE Some(FDiv(F(sr), FAdd(F(RoundDiv(sr, MAX_FREQ)), pt[1][1])))

\* .map(|point| sample_rate / point.x)
cepstrum_to_freq(sr, pt) ==
    IF pt = None THEN None ELSE Some(FDiv(F(sr), pt[1][1]))

cepstrum_detect_unscaled_freq(sig, range, buf) ==
    cepstrum_max(fft_peaks(cepstrum_spectrum(cepstrum_process_fft(sig, buf), range),
                           60, 10))

cepstrum_detect_frequency_with_fft_space(sig, sr, buf) ==
    cepstrum_to_freq(sr,
        cepstrum_detect_unscaled_freq(sig, cepstrum_relevant_fft_range(sr), buf))

(* ----------------------------- PitchDetector ------------------------- *)

pitch_pick(accum, item) ==
    IF FGt(item[2], accum[2]) THEN item ELSE accum

\* spectrum.iter().enumerate().reduce(..)
pitch_max(items) ==
    LET accum[i \in 1..Len(items)] ==
            IF i = 1 THEN items[1] ELSE pitch_pick(accum[i - 1], items[i])
    IN  IF Len(items) = 0 THEN None ELSE Some(accum[Len(items)])

\* SignalToSpectrum::bin_to_freq of a quefrency-domain implementor.
bin_to_freq(bin, sr) == FDiv(F(sr), bin)

\* What SignalToSpectrum::signal_to_spectrum may hand back.
PitchSpectra ==
    UNION {[1..n -> {F(a) : a \in 0..MaxAmplitude}] : n \in 0..MaxSpectrum}

(* ------------------------------- Init -------------------------------- *)

PriorSignals(n) ==
    {[k \in 1..n |-> 1], [k \in 1..n |-> IF k = 1 THEN MaxSample ELSE 0]}

\* What a workspace of length n may hold when a call starts: the zeroes of
\* FftSpace::new, or what an earlier detection left behind.
PriorContents(n) ==
    {FftSpaceNew(n)}
        \cup {autocorrelation_process_fft(a, FftSpaceNew(n)) : a \in PriorSignals(n)}
        \cup {cepstrum_process_fft(a, FftSpaceNew(n)) : a \in PriorSignals(n)}

Init ==
    /\ len \in FftLens
    /\ space \in PriorContents(len)
    /\ detector = "none"
    /\ signal = <<>>
    /\ sample_rate = 0
    /\ fft_range = <<0, 0>>
    /\ pc = "idle"
    /\ trace = <<>>
    /\ spectrum = <<>>
    /\ peaks = <<>>
    /\ fft_point = None
    /\ point = None
    /\ result = None
    /\ reused = FALSE

(* ------------------- AutocorrelationDetector: a call ------------------ *)

\* Mutant: process_fft does not initialize the buffer from the signal.
AutocorrelationBeginNoInit ==
    /\ pc = "idle"
    /\ \E sig \in Signals(len), sr \in Rates :
        /\ detector' = "autocorrelation"
        /\ signal' = sig
        /\ sample_rate' = sr
        /\ fft_range' = autocorrelation_relevant_fft_range(sr)
    /\ space' = space
    /\ reused' = (space # FftSpaceNew(len))
    /\ pc' = "initialized"
    /\ trace' = <<"init">>
    /\ UNCHANGED <<len, spectrum, peaks, fft_point, point, result>>

\* detect_frequency_with_fft_space computes the range, detect_unscaled_freq
\* enters process_fft, which plans the transforms and initializes the buffer.
AutocorrelationBegin ==
    /\ pc = "idle"
    /\ \E sig \in Signals(len), sr \in Rates :
        /\ detector' = "autocorrelation"
        /\ signal' = sig
        /\ sample_rate' = sr
        /\ fft_range' = autocorrelation_relevant_fft_range(sr)
        /\ space' = init_fft_space(sig, space)
    /\ reused' = (space # FftSpaceNew(len))
    /\ pc' = "initialized"
    /\ trace' = <<"init">>
    /\ UNCHANGED <<len, spectrum, peaks, fft_point, point, result>>

AutocorrelationForward ==
    /\ pc = "initialized"
    /\ detector = "autocorrelation"
    /\ space' = forward_fft(space)
    /\ pc' = "transformed"
    /\ trace' = Append(trace, "forward")
    /\ UNCHANGED <<len, detector, signal, sample_rate, fft_range, spectrum,
                   peaks, fft_point, point, result, reused>>

AutocorrelationMap ==
    /\ pc = "transformed"
    /\ detector = "autocorrelation"
    /\ space' = autocorrelation_map(space)
    /\ pc' = "mapped"
    /\ trace' = Append(trace, "map")
    /\ UNCHANGED <<len, detector, signal, sample_rate, fft_range, spectrum,
                   peaks, fft_point, point, result, reused>>

AutocorrelationInverse ==
    /\ pc = "mapped"
    /\ detector = "autocorrelation"
    /\ space' = inverse_fft(space)
    /\ pc' = "inverted"
    /\ trace' = Append(trace, "inverse")
    /\ UNCHANGED <<len, detector, signal, sample_rate, fft_range, spectrum,
                   peaks, fft_point, point, result, reused>>

\* The rest of detect_unscaled_freq and the conversion of its caller.
AutocorrelationSearch ==
    /\ pc = "inverted"
    /\ detector = "autocorrelation"
    /\ LET unscaled == autocorrelation_unscaled_spectrum(space, fft_range)
           max == autocorrelation_max(enumerate(unscaled))
           pt == autocorrelation_peak(unscaled, max)
       IN  /\ spectrum' = enumerate(unscaled)
           /\ fft_point' = max
           /\ point' = pt
           /\ result' = autocorrelation_to_freq(sample_rate, fft_range[1], pt)
    /\ pc' = "done"
    /\ trace' = Append(trace, "search")
    /\ UNCHANGED <<len, space, detector, signal, sample_rate, fft_range, peaks,
                   reused>>

(* ------------------------ PowerCepstrum: a call ----------------------- *)

CepstrumBegin ==
    /\ pc = "idle"
    /\ \E sig \in Signals(len), sr \in Rates :
        /\ detector' = "cepstrum"
        /\ signal' = sig
        /\ sample_rate' = sr
        /\ fft_range' = cepstrum_relevant_fft_range(sr)
        /\ space' = init_fft_space(sig, space)
    /\ reused' = (space # FftSpaceNew(len))
    /\ pc' = "initialized"
    /\ trace' = <<"init">>
    /\ UNCHANGED <<len, spectrum, peaks, fft_point, point, result>>

CepstrumForward ==
    /\ pc = "initialized"
    /\ detector = "cepstrum"
    /\ space' = forward_fft(space)
    /\ pc' = "transformed"
    /\ trace' = Append(trace, "forward")
    /\ UNCHANGED <<len, detector, signal, sample_rate, fft_range, spectrum,
                   peaks, fft_point, point, result, reused>>

CepstrumMap ==
    /\ pc = "transformed"
    /\ detector = "cepstrum"
    /\ space' = cepstrum_map(space)
    /\ pc' = "mapped"
    /\ trace' = Append(trace, "map")
    /\ UNCHANGED <<len, detector, signal, sample_rate, fft_range, spectrum,
                   peaks, fft_point, point, result, reused>>

CepstrumInverse ==
    /\ pc = "mapped"
    /\ detector = "cepstrum"
    /\ space' = inverse_fft(space)
    /\ pc' = "inverted"
    /\ trace' = Append(trace, "inverse")
    /\ UNCHANGED <<len, detector, signal, sample_rate, fft_range, spectrum,
                   peaks, fft_point, point, result, reused>>

CepstrumSearch ==
    /\ pc = "inverted"
    /\ detector = "cepstrum"
    /\ LET windowed == cepstrum_spectrum(space, fft_range)
           candidates == fft_peaks(windowed, 60, 10)
           max == cepstrum_max(candidates)
       IN  /\ spectrum' = windowed
           /\ peaks' = candidates
           /\ fft_point' = max
           /\ point' = max
           /\ result' = cepstrum_to_freq(sample_rate, max)
    /\ pc' = "done"
    /\ trace' = Append(trace, "search")
    /\ UNCHANGED <<len, space, detector, signal, sample_rate, fft_range, reused>>

(* ---------------------- PitchDetector::detect_pitch ------------------- *)

DetectPitch ==
    /\ pc = "idle"
    /\ \E start_bin \in 0..1, ys \in PitchSpectra, sr \in Rates :
        LET max == pitch_max(enumerate(ys))
            pt == IF max = None THEN None
                  ELSE interpolated_peak_at(ys, max[1][1])
        IN  /\ detector' = "pitch"
            /\ sample_rate' = sr
            /\ fft_range' = <<start_bin, start_bin + Len(ys)>>
            /\ spectrum' = enumerate(ys)
            /\ fft_point' = max
            /\ point' = pt
            /\ result' = IF pt = None THEN None
                         ELSE Some(bin_to_freq(FAdd(pt[1][1], F(start_bin)), sr))
    /\ pc' = "done"
    /\ trace' = <<"search">>
    /\ UNCHANGED <<len, space, signal, peaks, reused>>

Next ==
    \/ AutocorrelationBegin
    \/ AutocorrelationForward
    \/ AutocorrelationMap
    \/ AutocorrelationInverse
    \/ AutocorrelationSearch
    \/ CepstrumBegin
    \/ CepstrumForward
    \/ CepstrumMap
    \/ CepstrumInverse
    \/ CepstrumSearch
    \/ DetectPitch

Spec == Init /\ [][Next]_vars

(* ------------- the peak search on longer transformed buffers ---------- *)

SearchLen == 7
CepstrumLen == 134

WideSamples == {-1, 0, 1}
SearchRates == {4, 5, 6, 8}
SpikeBins == <<70, 100, 131>>
SpikeHeights == {0, 5, 12, 20}
Shoulders == {0, 3}
CepstrumRates == {260, 272, 284}

RECURSIVE SumTo(_, _)
SumTo(f, n) == IF n = 0 THEN 0 ELSE SumTo(f, n - 1) + f[n]

\* What process_fft leaves in the buffer for an integer signal of any
\* length N: the inverse transform of X * conj(X) is N times the circular
\* autocorrelation of the signal (no rounding in this model).
circular_autocorrelation(sig) ==
    LET N == Len(sig)
        r(n) == SumTo([k \in 1..N |-> sig[k] * sig[((k - 1 + n) % N) + 1]], N)
    IN  [n \in 1..N |-> <<F(N * r(n - 1)), F(0)>>]

\* A real cepstrum of CepstrumLen bins: flat, with a spike of height h[i]
\* at SpikeBins[i] and a shoulder on the bin after each spike.
spiked_cepstrum(h, shoulder) ==
    LET at(b) == {i \in 1..Len(SpikeBins) : SpikeBins[i] = b /\ h[i] > 0}
        after(b) == {i \in 1..Len(SpikeBins) : SpikeBins[i] + 1 = b /\ h[i] > 0}
        val(b) == IF at(b) # {} THEN h[CHOOSE i \in at(b) : TRUE]
                  ELSE IF after(b) # {} THEN shoulder ELSE 0
    IN  [k \in 1..CepstrumLen |-> <<F(val(k - 1)), F(0)>>]

\* The state of a call when the inverse transform has completed.
InitSearch ==
    /\ \/ /\ detector = "autocorrelation"
          /\ len = SearchLen
          /\ signal \in [1..SearchLen -> WideSamples]
          /\ space = circular_autocorrelation(signal)
          /\ sample_rate \in SearchRates
          /\ fft_range = autocorrelation_relevant_fft_range(sample_rate)
       \/ /\ detector = "cepstrum"
          /\ len = CepstrumLen
          /\ signal = <<>>
          /\ \E h \in [1..Len(SpikeBins) -> SpikeHeights], sh \in Shoulders :
                space = spiked_cepstrum(h, sh)
          /\ sample_rate \in CepstrumRates
          /\ fft_range = cepstrum_relevant_fft_range(sample_rate)
    /\ pc = "inverted"
    /\ trace = <<"init", "forward", "map", "inverse">>
    /\ spectrum = <<>>
    /\ peaks = <<>>
    /\ fft_point = None
    /\ point = None
    /\ result = None
    /\ reused = FALSE

NextSearch ==
    \/ AutocorrelationSearch
    \/ CepstrumSearch

SpecSearch == InitSearch /\ [][NextSearch]_vars

(* ============================== claims =============================== *)

Detecting == detector \in {"autocorrelation", "cepstrum"}
Window == values(spectrum)
\* The index, counted from 0, of the item the maximum search selected.
MaxIndex == fft_point[1][1]
SilentSignal == \A k \in 1..Len(signal) : signal[k] = 0

\* What the same call returns on a workspace that FftSpace::new just built.
FreshResult ==
    IF detector = "autocorrelation"
    THEN autocorrelation_detect_frequency_with_fft_space(
             signal, sample_rate, FftSpaceNew(len))
    ELSE cepstrum_detect_frequency_with_fft_space(
             signal, sample_rate, FftSpaceNew(len))

FreshSpace ==
    IF detector = "autocorrelation"
    THEN autocorrelation_process_fft(signal, FftSpaceNew(len))
    ELSE cepstrum_process_fft(signal, FftSpaceNew(len))

\* C1: whatever a workspace held before the call, a detection of either
\* detector returns what the same signal and sample rate give on a fresh
\* workspace, and leaves the same buffer behind: the result depends on the
\* signal and the sample rate only.
C1_ResultIgnoresPriorContents ==
    (pc = "done" /\ Detecting) =>
        /\ result = FreshResult
        /\ space = FreshSpace

C1_Witness ==
    /\ pc = "done"
    /\ detector = "autocorrelation"
    /\ reused
    /\ result # None

\* C2 as stated: over a non-empty window the maximum search of the
\* Autocorrelation Detector and of detect_pitch selects the index i with
\* window[i] >= window[j] for every j and window[i] > window[j] for every
\* j < i.
C2_Original ==
    (pc = "done" /\ detector \in {"autocorrelation", "pitch"}
                 /\ Len(spectrum) > 0) =>
        /\ fft_point # None
        /\ \A j \in 1..Len(Window) : FGe(Window[MaxIndex + 1], Window[j])
        /\ \A j \in 1..MaxIndex : FGt(Window[MaxIndex + 1], Window[j])

NoNaN(ys) == \A j \in 1..Len(ys) : ~IsNaN(ys[j])
AllNaN(ys) == \A j \in 1..Len(ys) : IsNaN(ys[j])

\* C2 (amended): over a non-empty window without NaN values the search
\* selects the earliest index holding the greatest value (>= every value,
\* > every earlier one); over a window of NaN values only, which is what a
\* silent signal gives the Autocorrelation Detector, it selects index 0.
C2_EarliestMaximum ==
    (pc = "done" /\ detector \in {"autocorrelation", "pitch"}
                 /\ Len(spectrum) > 0) =>
        /\ fft_point # None
        /\ fft_point[1] = spectrum[MaxIndex + 1]
        /\ NoNaN(Window) =>
              /\ \A j \in 1..Len(Window) : FGe(Window[MaxIndex + 1], Window[j])
              /\ \A j \in 1..MaxIndex : FGt(Window[MaxIndex + 1], Window[j])
        /\ AllNaN(Window) => MaxIndex = 0

\* Two equal greatest values, and the search took the first of them.
C2_Witness ==
    /\ pc = "done"
    /\ detector = "autocorrelation"
    /\ Len(spectrum) = 3
    /\ NoNaN(Window)
    /\ Window[1] = Window[3]
    /\ FGt(Window[1], Window[2])
    /\ MaxIndex = 0

\* C3: the Autocorrelation Detector returns None exactly when the window is
\* empty, or the selected maximum is the first or the last element of the
\* window, or the Peak Interpolator's fit is degenerate there; otherwise it
\* returns a frequency.
C3_NoResultCases ==
    (pc = "done" /\ detector = "autocorrelation") =>
        /\ Len(spectrum) = 0 => fft_point = None
        /\ (result = None) <=>
              \/ Len(spectrum) = 0
              \/ MaxIndex = 0
              \/ MaxIndex = Len(spectrum) - 1
              \/ DegenerateAt(Window, MaxIndex)
        /\ result # None => ~IsNaN(result[1])

\* The maximum is the last of several window elements: no result.
C3_Witness ==
    /\ pc = "done"
    /\ detector = "autocorrelation"
    /\ Len(spectrum) > 1
    /\ MaxIndex = Len(spectrum) - 1
    /\ result = None

\* C4: a frequency returned by the Autocorrelation Detector is
\* sample_rate / (lower_bin + x), with lower_bin = round(sample_rate /
\* MAX_FREQ) the first bin of the window and x the window-relative position
\* the Peak Interpolator returned for the selected maximum.
C4_AutocorrelationFrequency ==
    (pc = "done" /\ detector = "autocorrelation" /\ result # None) =>
        /\ point # None
        /\ point = interpolated_peak_at(Window, MaxIndex)
        /\ result = Some(FDiv(F(sample_rate),
                              FAdd(F(RoundDiv(sample_rate, MAX_FREQ)),
                                   point[1][1])))

\* A frequency from a peak that lies between two bins of a window that
\* does not start at bin 0.
C4_Witness ==
    /\ pc = "done"
    /\ detector = "autocorrelation"
    /\ result # None
    /\ fft_range[1] > 0
    /\ point[1][1][2] # 1

\* C5: a frequency returned by the Power-Cepstrum Detector is
\* sample_rate / x, with x the bin position of the selected candidate as the
\* Peak Finder produced it; the window's lower bin is not added to x.
C5_CepstrumFrequency ==
    (pc = "done" /\ detector = "cepstrum" /\ result # None) =>
        /\ fft_point # None
        /\ \E i \in 1..Len(peaks) : peaks[i] = fft_point[1]
        /\ point = fft_point
        /\ result = Some(FDiv(F(sample_rate), fft_point[1][1]))

C5_Witness ==
    /\ pc = "done"
    /\ detector = "cepstrum"
    /\ result # None
    /\ fft_range[1] > 0
    /\ fft_point[1][1][2] # 1

\* The bins of the transformed buffer that the peak search of the call read.
EligibleBins ==
    IF detector = "cepstrum"
    THEN {spectrum[i][1] : i \in 1..Len(spectrum)}
    ELSE {fft_range[1] + spectrum[i][1] : i \in 1..Len(spectrum)}

RangeOf(sr) == <<RoundDiv(sr, MAX_FREQ), RoundDiv(sr, MIN_FREQ)>>

\* C6 as stated: both detectors compute the range (round(sample_rate /
\* MAX_FREQ), round(sample_rate / MIN_FREQ)), and the bins eligible for the
\* peak search are the bins i of the buffer with lower <= i <= upper.
C6_Original ==
    (pc = "done" /\ Detecting) =>
        /\ fft_range = RangeOf(sample_rate)
        /\ autocorrelation_relevant_fft_range(sample_rate)
               = cepstrum_relevant_fft_range(sample_rate)
        /\ EligibleBins =
               {i \in 0..(len - 1) : fft_range[1] <= i /\ i <= fft_range[2]}

\* C6 (amended): both detectors compute that same range, and the eligible
\* bins are the bins i of the buffer with lower <= i < upper: the bin
\* upper itself is not searched.
C6_HalfOpenRange ==
    (pc = "done" /\ Detecting) =>
        /\ fft_range = RangeOf(sample_rate)
        /\ autocorrelation_relevant_fft_range(sample_rate)
               = cepstrum_relevant_fft_range(sample_rate)
        /\ EligibleBins =
               {i \in 0..(len - 1) : fft_range[1] <= i /\ i < fft_range[2]}

\* The bin upper exists in the buffer and the search did not read it.
C6_Witness ==
    /\ pc = "done"
    /\ Detecting
    /\ fft_range[2] < len
    /\ EligibleBins # {}
    /\ fft_range[2] \notin EligibleBins

\* C7: the Power-Cepstrum Detector selects among the candidates the Peak
\* Finder yields over the windowed cepstrum with separation 60 and
\* prominence 10: the candidate of greatest amplitude, the earliest yielded
\* of several with that amplitude, and no result for no candidate.
C7_GreatestCandidate ==
    (pc = "done" /\ detector = "cepstrum") =>
        /\ peaks = fft_peaks(spectrum, 60, 10)
        /\ (Len(peaks) = 0) <=> (result = None)
        /\ Len(peaks) > 0 =>
              \E i \in 1..Len(peaks) :
                  /\ fft_point = Some(peaks[i])
                  /\ \A j \in 1..Len(peaks) : FGe(peaks[i][2], peaks[j][2])
                  /\ \A j \in 1..(i - 1) : FGt(peaks[i][2], peaks[j][2])

\* Two candidates of the same, greatest amplitude: the first is selected.
C7_Witness ==
    /\ pc = "done"
    /\ detector = "cepstrum"
    /\ Len(peaks) = 2
    /\ peaks[1][2] = peaks[2][2]
    /\ fft_point = Some(peaks[1])
    /\ result # None

Pipeline == <<"init", "forward", "map", "inverse", "search">>
SignalInBuffer == [k \in 1..len |-> <<F(signal[k]), F(0)>>]
MappedSpectrum ==
    LET X == Dft(SignalInBuffer, 1)
    IN  [k \in 1..len |->
            IF detector = "autocorrelation"
            THEN <<NormSqr(X[k]), F(0)>>
            ELSE <<Ln(NormSqr(X[k])), F(0)>>]

\* C9: a detection call of either detector takes the workspace through
\* initialize, forward transform, elementwise map (X * conj(X), or
\* ln(|X|^2) with a zero imaginary part), inverse transform, each once and in
\* this order; the window is read only after the inverse transform; the
\* buffer has the same length at every step.
C9_PipelineOrder ==
    Detecting =>
        /\ Len(space) = len
        /\ trace = SubSeq(Pipeline, 1, Len(trace))
        /\ pc = "initialized" => Len(trace) = 1 /\ space = SignalInBuffer
        /\ pc = "transformed" => Len(trace) = 2 /\ space = Dft(SignalInBuffer, 1)
        /\ pc = "mapped" => Len(trace) = 3 /\ space = MappedSpectrum
        /\ pc = "inverted" => Len(trace) = 4 /\ space = Dft(MappedSpectrum, 3)
        /\ pc = "done" => Len(trace) = 5 /\ space = Dft(MappedSpectrum, 3)
        /\ pc # "done" => spectrum = <<>> /\ result = None

C9_Witness ==
    /\ pc = "done"
    /\ detector = "cepstrum"
    /\ trace = Pipeline
    /\ Len(spectrum) > 0
    /\ \E k \in 1..len : Im(Dft(SignalInBuffer, 1)[k]) # F(0)

\* C10: on a silent signal the Autocorrelation Detector returns None: the
\* zero-lag term is 0, every window value is the NaN of 0 / 0, none compares
\* greater than the first, the selected maximum stays at the first element
\* and the boundary rule gives no result.
C10_SilenceGivesNoResult ==
    (pc = "done" /\ detector = "autocorrelation" /\ SilentSignal) =>
        /\ Re(space[1]) = F(0)
        /\ AllNaN(Window)
        /\ \A j \in 1..Len(Window) : ~FGt(Window[j], Window[1])
        /\ Len(spectrum) > 0 => MaxIndex = 0
        /\ result = None

C10_Witness ==
    /\ pc = "done"
    /\ detector = "autocorrelation"
    /\ SilentSignal
    /\ Len(spectrum) > 1
    /\ MaxIndex = 0
    /\ result = None

\* C11: every pair <<index, amplitude>> the Power-Cepstrum Detector hands to
\* the Peak Finder carries the absolute index of its bin in the transformed
\* buffer (the bins are numbered before the first lower_bin of them are
\* skipped), so lower_bin <= index < upper_bin; the window of the
\* Autocorrelation Detector is numbered from 0, relative to lower_bin.
C11_CepstrumIndicesAbsolute ==
    (pc = "done" /\ Detecting) =>
        \A i \in 1..Len(spectrum) :
            IF detector = "cepstrum"
            THEN /\ spectrum[i][1] = fft_range[1] + i - 1
                 /\ fft_range[1] <= spectrum[i][1]
                 /\ spectrum[i][1] < fft_range[2]
                 /\ spectrum[i][1] < len
                 /\ spectrum[i][2] = Re(space[spectrum[i][1] + 1])
            ELSE /\ spectrum[i][1] = i - 1
                 /\ spectrum[i][2] = FDiv(Re(space[fft_range[1] + i]),
                                          Re(space[1]))

\* A cepstrum window that starts after bin 0: its first index is lower_bin.
C11_Witness ==
    /\ pc = "done"
    /\ detector = "cepstrum"
    /\ fft_range[1] > 0
    /\ Len(spectrum) > 1
    /\ spectrum[1][1] = fft_range[1]

====
